---------------------------- MODULE Spec2Model ----------------------------
(***************************************************************************)
(* sonic-pipe: an acoustic modem.  Sender: compress -> Reed-Solomon encode  *)
(* -> Packet -> serialize -> MFSK modulate.  Receiver: demodulate ->        *)
(* Packet::deserialize -> Reed-Solomon decode -> decompress.                *)
(*                                                                         *)
(* Bytes are naturals 0..255, byte vectors are sequences.  A Rust Result   *)
(* or Option is a record [ok, val, err].                                    *)
(***************************************************************************)
EXTENDS Integers, Sequences, FiniteSets, TLC

VARIABLES
    pc,              \* position of the run in the pipeline
    config,          \* Config: mode, symbol_duration_ms
    frequencies,     \* the demodulator's frequency table (MFSKDemodulator::new)
    data,            \* the input of the run (user bytes / payload / bytes to modulate)
    compressed,      \* compress(data)
    encoded,         \* ReedSolomonCodec::encode(...)
    block,           \* the ECC block handed to ReedSolomonCodec::decode
    packet,          \* Packet::new(...)
    packet_data,     \* packet.serialize()
    wire,            \* the bytes handed to Packet::deserialize
    samples,         \* modulate(...)
    capture,         \* the sample buffer handed to demodulate
    decoded_data,    \* demodulate(capture)
    decoded_packet,  \* Packet::deserialize(wire)
    ecc_decoded,     \* ReedSolomonCodec::decode(...)
    decompressed,    \* decompress(ecc_decoded)
    damage,          \* what the channel did to the frame, if anything
    target,          \* the build: usize_bits (64 CLI, 32 wasm32), overflow_checks
    \* locals of MFSKDemodulator::demodulate
    loop_start_pos,  \* start_pos: detect_wake_up(samples)
    loop_pos,        \* pos: the read cursor of the symbol loop
    loop_nibbles,    \* nibbles: the symbols read so far
    \* AudioInput::record_until_complete
    rec_pc,          \* position of the polling loop
    rec_samples,     \* the shared buffer the input callback appends to
    current_samples, \* the clone last passed to check_fn
    check_calls,     \* how many times check_fn was called
    check_result,    \* what the last call of check_fn returned
    elapsed,         \* time since capture start, in polling periods
    timeout,         \* timeout_ms, in polling periods
    rec_result,      \* the value record_until_complete returned
    \* AudioOutput::play_samples
    play_pc,         \* position of the polling thread
    cb_pc,           \* position of the output callback
    out_samples,     \* the buffer to play
    position,        \* index of the next sample to play
    finished,        \* the finished flag
    cb_left,         \* slots of the callback's data buffer still to fill
    driver,          \* every sample written into a data buffer so far, in order
    locks            \* owner of each mutex: samples, position, finished

pipeline_vars ==
    <<pc, config, frequencies, data, compressed, encoded, block, packet,
      packet_data, wire, samples, capture, decoded_data, decoded_packet,
      ecc_decoded, decompressed, damage>>

demod_vars == <<loop_start_pos, loop_pos, loop_nibbles>>

rec_vars ==
    <<rec_pc, rec_samples, current_samples, check_calls, check_result, elapsed,
      timeout, rec_result>>

play_vars ==
    <<play_pc, cb_pc, out_samples, position, finished, cb_left, driver, locks>>

vars == <<pipeline_vars, target, demod_vars, rec_vars, play_vars>>

----------------------------------------------------------------------------
(* Bounds of the exploration *)

MaxPayloadLen == 2      \* packets: every payload over PacketBytes up to this length

MaxFlipLen == 12        \* bit flips: on serialized packets of at most this many bytes

MaxModemLen == 2        \* modem: every byte vector over ModemBytes up to this length

MaxForeignLen == 8      \* received bytes: every vector over ForeignBytes up to this length

MaxNibbles == 40        \* symbol loop: the nibble list is not recorded beyond this length

MaxCaptured == 4        \* capture: samples the input device delivers

MaxBlock == 2           \* audio callbacks: samples per callback buffer, at most

MaxTimeout == 2         \* capture: timeout_ms, in polling periods of 50 ms

MaxSleep == 2           \* capture: a sleep of 50 ms takes 1..MaxSleep periods

MaxPlayLen == 3         \* playback: samples in the buffer to play

MaxTail == 2            \* playback: slots the callback is asked to fill beyond the buffer

----------------------------------------------------------------------------
(* Result / Option values *)

Ok(v) == [ok |-> TRUE, val |-> v, err |-> "none"]

Err(e) == [ok |-> FALSE, val |-> <<>>, err |-> e]

Unset == Err("unset")

None == Err("None")

Panic == Err("panic")       \* the call does not return: the thread panics (wasm: trap)

NoDamage == [kind |-> "none", at |-> {}]

----------------------------------------------------------------------------
(* Integer helpers: bitwise xor, big/little endian encodings *)

RECURSIVE Xor(_, _)
Xor(a, b) ==
    IF a = 0 THEN b
    ELSE IF b = 0 THEN a
    ELSE (((a % 2) + (b % 2)) % 2) + 2 * Xor(a \div 2, b \div 2)

Min(a, b) == IF a < b THEN a ELSE b

Max(a, b) == IF a > b THEN a ELSE b

SubVec(s, lo, hi) == [i \in 1..(hi - lo) |-> s[lo + i]]   \* the slice s[lo..hi], 0-based

U16BE(n) == <<(n \div 256) % 256, n % 256>>

U32BE(n) == <<(n \div 16777216) % 256, (n \div 65536) % 256, (n \div 256) % 256, n % 256>>

Wide32BE(x) == U16BE(x[1]) \o U16BE(x[2])      \* a u32 held as <<high 16, low 16>>

ReadWide32BE(s, at) == <<s[at + 1] * 256 + s[at + 2], s[at + 3] * 256 + s[at + 4]>>

ReadU16BE(s, at) == s[at + 1] * 256 + s[at + 2]

ReadU32BE(s, at) ==
    s[at + 1] * 16777216 + s[at + 2] * 65536 + s[at + 3] * 256 + s[at + 4]

----------------------------------------------------------------------------
(* CRC-32 (ISO-HDLC), the function crc32fast::hash computes.  A u32 that  *)
(* uses all 32 bits is the pair <<high 16 bits, low 16 bits>>.             *)

CrcPolyHi == 60856      \* 0xEDB88320, the reflected polynomial: 0xEDB8

CrcPolyLo == 33568      \* 0x8320

Xor32(x, y) == <<Xor(x[1], y[1]), Xor(x[2], y[2])>>

Shr32(x, n) ==          \* x >> n for n in {1, 8}
    LET m == IF n = 1 THEN 2 ELSE 256
    IN <<x[1] \div m, (x[2] \div m) + (x[1] % m) * (65536 \div m)>>

RECURSIVE CrcShift(_, _)
CrcShift(c, n) ==
    IF n = 0 THEN c
    ELSE CrcShift(IF c[2] % 2 = 1 THEN Xor32(<<CrcPolyHi, CrcPolyLo>>, Shr32(c, 1))
                  ELSE Shr32(c, 1), n - 1)

CrcTable == [n \in 0..255 |-> CrcShift(<<0, n>>, 8)]

CrcByte(crc, b) == Xor32(CrcTable[Xor(crc[2] % 256, b)], Shr32(crc, 8))

\* the bytes s[lo..hi] (1-based, inclusive) fed to the register in order, the
\* first half before the second
RECURSIVE CrcRange(_, _, _, _)
CrcRange(crc, s, lo, hi) ==
    IF lo > hi THEN crc
    ELSE IF lo = hi THEN CrcByte(crc, s[lo])
    ELSE LET mid == (lo + hi) \div 2
             left == CrcRange(crc, s, lo, mid)
         IN IF left[1] >= 0 THEN CrcRange(left, s, mid + 1, hi) ELSE left

Crc32(s) ==
    LET crc == CrcRange(<<65535, 65535>>, s, 1, Len(s))
    IN <<65535 - crc[1], 65535 - crc[2]>>

----------------------------------------------------------------------------
(* protocol.rs: Packet *)

PROTOCOL_VERSION == 1

MAX_PAYLOAD_SIZE == 1024

HEADER_SIZE == 4

PacketNewOffByOne(payload) ==
    IF Len(payload) >= MAX_PAYLOAD_SIZE
    THEN Err("InvalidPacket")
    ELSE Ok([version |-> PROTOCOL_VERSION,
             payload_len |-> Len(payload) % 65536,
             flags |-> 0,
             payload |-> payload,
             checksum |-> Crc32(payload)])

PacketNew(payload) ==
    IF Len(payload) > MAX_PAYLOAD_SIZE
    THEN Err("InvalidPacket")
    ELSE Ok([version |-> PROTOCOL_VERSION,
             payload_len |-> Len(payload) % 65536,
             flags |-> 0,
             payload |-> payload,
             checksum |-> Crc32(payload)])

PacketSerializeLenLE(p) ==
    <<p.version, p.payload_len % 256, (p.payload_len \div 256) % 256, p.flags>>
        \o p.payload \o Wide32BE(p.checksum)

PacketSerialize(p) ==
    <<p.version>> \o U16BE(p.payload_len) \o <<p.flags>>
        \o p.payload \o Wide32BE(p.checksum)

PacketDeserializeNoCrc(d) ==
    IF Len(d) < HEADER_SIZE + 4 THEN Err("InvalidPacket")
    ELSE LET payload_len == ReadU16BE(d, 1)
             payload_end == HEADER_SIZE + payload_len
         IN IF Len(d) < payload_end + 4 THEN Err("InvalidPacket")
            ELSE Ok([version |-> d[1],
                     payload_len |-> payload_len,
                     flags |-> d[4],
                     payload |-> SubVec(d, HEADER_SIZE, payload_end),
                     checksum |-> ReadWide32BE(d, payload_end)])

PacketDeserialize(d) ==
    IF Len(d) < HEADER_SIZE + 4 THEN Err("InvalidPacket")
    ELSE LET version == d[1]
             payload_len == ReadU16BE(d, 1)
             flags == d[4]
             payload_start == HEADER_SIZE
             payload_end == payload_start + payload_len
         IN IF Len(d) < payload_end + 4 THEN Err("InvalidPacket")
            ELSE LET payload == SubVec(d, payload_start, payload_end)
                     checksum == ReadWide32BE(d, payload_end)
                     computed_checksum == Crc32(payload)
                 IN IF checksum # computed_checksum
                    THEN Err("ChecksumMismatch")
                    ELSE Ok([version |-> version,
                             payload_len |-> payload_len,
                             flags |-> flags,
                             payload |-> payload,
                             checksum |-> checksum])

----------------------------------------------------------------------------
(* lib.rs: constants, TransmissionMode, Config *)

SAMPLE_RATE == 48000

DEFAULT_SYMBOL_DURATION_MS == 50

NUM_TONES == 16

WAKE_UP_FREQUENCY == 18500

WAKE_UP_DURATION_MS == 100

base_frequency(mode) == IF mode = "Audible" THEN 1000 ELSE 17000

frequency_step(mode) == IF mode = "Audible" THEN 100 ELSE 150

DefaultConfig == [mode |-> "Audible", symbol_duration_ms |-> DEFAULT_SYMBOL_DURATION_MS]

\* the builds of the crate: the CLI (64-bit usize) and the wasm32 module
\* (32-bit usize), each with or without overflow checks (debug / release)
Native == [usize_bits |-> 64, overflow_checks |-> FALSE]

Targets == {[usize_bits |-> b, overflow_checks |-> c] : b \in {32, 64}, c \in BOOLEAN}

----------------------------------------------------------------------------
(* modulation.rs: tones.                                                   *)
(*                                                                         *)
(* A sample buffer (Vec<f32>) is a sequence of segments                    *)
(* [freq, start, len]: len samples from index start, a tone of frequency   *)
(* freq Hz produced by one generate_tone call (freq = 0: zero samples).    *)
(* The volume is Config::default's 0.5.                                    *)

FrequencyTable(mode) ==
    [i \in 1..NUM_TONES |-> base_frequency(mode) + (i - 1) * frequency_step(mode)]

NumSamples(duration_ms) == (SAMPLE_RATE * duration_ms) \div 1000

FadeSamples == (SAMPLE_RATE * 5) \div 1000          \* sample_rate * 0.005

GuardSamples == (SAMPLE_RATE * 20) \div 1000        \* sample_rate * 0.02

\* fade(i) of generate_tone, in units of 1/FadeSamples
Fade(num_samples, i) ==
    IF i < FadeSamples THEN i
    ELSE IF i > num_samples - FadeSamples THEN num_samples - i
    ELSE FadeSamples

\* sum of i over lo <= i < hi
Tri(lo, hi) == IF hi <= lo THEN 0 ELSE ((hi * (hi - 1)) - (lo * (lo - 1))) \div 2

\* sum of Fade(num_samples, i) over lo <= i < hi, for 0 <= lo, hi <= num_samples
FadeSum(num_samples, lo, hi) ==
    LET down == Max(FadeSamples, num_samples - FadeSamples + 1)
        upHi == Min(hi, FadeSamples)
        flatLo == Max(lo, FadeSamples)
        flatHi == Min(hi, down)
        downLo == Max(lo, down)
    IN  Tri(lo, upHi)
        + (IF flatHi > flatLo THEN (flatHi - flatLo) * FadeSamples ELSE 0)
        + (IF hi > downLo THEN (hi - downLo) * num_samples - Tri(downLo, hi) ELSE 0)

Tone(freq, start, duration_ms) ==
    [freq |-> freq, start |-> start, len |-> NumSamples(duration_ms)]

Silence(start, len) == [freq |-> 0, start |-> start, len |-> len]

BufLen(buf) == IF buf = <<>> THEN 0 ELSE buf[Len(buf)].start + buf[Len(buf)].len

ModulateLowFirst(cfg, bytes) ==
    LET F == FrequencyTable(cfg.mode)
        wake == NumSamples(WAKE_UP_DURATION_MS)
        sym == NumSamples(cfg.symbol_duration_ms)
        first == wake + GuardSamples
        symbol(k) ==
            LET byte == bytes[(k + 1) \div 2]
                nibble == IF k % 2 = 0 THEN (byte \div 16) % 16 ELSE byte % 16
            IN Tone(F[nibble + 1], first + (k - 1) * sym, cfg.symbol_duration_ms)
    IN  <<Tone(WAKE_UP_FREQUENCY, 0, WAKE_UP_DURATION_MS), Silence(wake, GuardSamples)>>
        \o [k \in 1..(2 * Len(bytes)) |-> symbol(k)]
        \o <<Tone(WAKE_UP_FREQUENCY, first + 2 * Len(bytes) * sym, WAKE_UP_DURATION_MS)>>

\* MFSKModulator::modulate: wake-up, guard silence, two tones per byte
\* (high nibble first), wake-up
Modulate(cfg, bytes) ==
    LET F == FrequencyTable(cfg.mode)
        wake == NumSamples(WAKE_UP_DURATION_MS)
        sym == NumSamples(cfg.symbol_duration_ms)
        first == wake + GuardSamples
        symbol(k) ==           \* k-th tone of the payload, k = 1..2*Len(bytes)
            LET byte == bytes[(k + 1) \div 2]
                nibble == IF k % 2 = 1 THEN (byte \div 16) % 16 ELSE byte % 16
            IN Tone(F[nibble + 1], first + (k - 1) * sym, cfg.symbol_duration_ms)
    IN  <<Tone(WAKE_UP_FREQUENCY, 0, WAKE_UP_DURATION_MS), Silence(wake, GuardSamples)>>
        \o [k \in 1..(2 * Len(bytes)) |-> symbol(k)]
        \o <<Tone(WAKE_UP_FREQUENCY, first + 2 * Len(bytes) * sym, WAKE_UP_DURATION_MS)>>

----------------------------------------------------------------------------
(* modulation.rs: the Goertzel detector.                                   *)
(*                                                                         *)
(* A window samples[pos..pos+n] is [n, parts]: the pieces of the tones it  *)
(* overlaps, each [freq, len, lo, hi] = samples lo..hi-1 of a tone of len  *)
(* samples.  goertzel returns the magnitude of bin k = round(f*n/rate):    *)
(* the coherent sum of the amplitudes volume*fade(i) of the tones that     *)
(* fall in bin k, halved.  With volume 0.5 and fade in 1/FadeSamples, one  *)
(* unit of the f32 result is MagUnit units here.  Leakage of a tone into   *)
(* other bins is not represented (it is below one f32 unit for the frames  *)
(* modulate produces).                                                     *)

MagUnit == 4 * FadeSamples

Bin(freq, n) == ((2 * freq * n) + SAMPLE_RATE) \div (2 * SAMPLE_RATE)   \* .round()

Window(buf, pos, n) ==
    LET over == {k \in 1..Len(buf) :
                    /\ buf[k].freq # 0
                    /\ buf[k].start < pos + n
                    /\ buf[k].start + buf[k].len > pos}
    IN [n |-> n,
        parts |-> {[freq |-> buf[k].freq,
                    len |-> buf[k].len,
                    lo |-> Max(pos, buf[k].start) - buf[k].start,
                    hi |-> Min(pos + n, buf[k].start + buf[k].len) - buf[k].start]
                   : k \in over}]

RECURSIVE SumParts(_)
SumParts(parts) ==
    IF parts = {} THEN 0
    ELSE LET p == CHOOSE q \in parts : TRUE
         IN FadeSum(p.len, p.lo, p.hi) + SumParts(parts \ {p})

goertzel(window, target_freq) ==
    LET k == Bin(target_freq, window.n)
    IN SumParts({p \in window.parts : Bin(p.freq, window.n) = k})

\* fold(0.0, max) of the data magnitudes
DataMag(freqs, window) ==
    LET mags == {goertzel(window, freqs[i]) : i \in 1..Len(freqs)}
    IN CHOOSE m \in mags : \A x \in mags : x <= m

\* wake_mag > 0.01 && wake_mag > data_mag * 1.5
WakeHit(freqs, window) ==
    LET wake_mag == goertzel(window, WAKE_UP_FREQUENCY)
        data_mag == DataMag(freqs, window)
    IN  /\ 100 * wake_mag > MagUnit
        /\ 2 * wake_mag > 3 * data_mag

\* the first k in lo..hi, in scan order, whose window at offset k * step triggers;
\* -1 when none does
RECURSIVE WakeScan(_, _, _, _, _, _)
WakeScan(freqs, buf, window_size, step, lo, hi) ==
    IF lo > hi THEN -1
    ELSE IF lo = hi
         THEN (IF WakeHit(freqs, Window(buf, lo * step, window_size)) THEN lo ELSE -1)
    ELSE LET mid == (lo + hi) \div 2
             first == WakeScan(freqs, buf, window_size, step, lo, mid)
         IN IF first >= 0 THEN first
            ELSE WakeScan(freqs, buf, window_size, step, mid + 1, hi)

\* MFSKDemodulator::detect_wake_up: for i in (0..len.saturating_sub(w)).step_by(w / 4)
detect_wake_up(freqs, buf) ==
    LET window_size == NumSamples(WAKE_UP_DURATION_MS) \div 2
        step == window_size \div 4
        limit == Max(BufLen(buf) - window_size, 0)
        last == (limit - 1) \div step           \* the last offset examined is last * step
        k == IF limit = 0 THEN -1 ELSE WakeScan(freqs, buf, window_size, step, 0, last)
    IN IF k < 0 THEN None
       ELSE Ok(k * step + NumSamples(WAKE_UP_DURATION_MS))

\* MFSKDemodulator::detect_symbol: first index of the strictly largest magnitude
detect_symbol(freqs, window) ==
    LET mag(i) == goertzel(window, freqs[i])
        best == CHOOSE i \in 1..Len(freqs) :
                    /\ \A j \in 1..Len(freqs) : mag(j) <= mag(i)
                    /\ \A j \in 1..(i - 1) : mag(j) < mag(i)
    IN IF mag(best) > 0 THEN best - 1 ELSE 0

\* the symbol loop of demodulate: the first j in lo..hi, in order, whose window
\* samples[pos + j*n .. pos + (j+1)*n] is a wake-up hit; hi + 1 when none is
RECURSIVE FirstBreak(_, _, _, _, _, _)
FirstBreak(freqs, buf, pos, symbol_samples, lo, hi) ==
    IF lo > hi THEN hi + 1
    ELSE IF lo = hi
         THEN (IF WakeHit(freqs, Window(buf, pos + lo * symbol_samples, symbol_samples))
               THEN lo ELSE hi + 1)
    ELSE LET mid == (lo + hi) \div 2
             first == FirstBreak(freqs, buf, pos, symbol_samples, lo, mid)
         IN IF first <= mid THEN first
            ELSE FirstBreak(freqs, buf, pos, symbol_samples, mid + 1, hi)

\* while pos + symbol_samples <= samples.len(): break on a wake-up hit, else push
\* detect_symbol(window) and advance by symbol_samples
ReadSymbols(freqs, buf, pos, symbol_samples) ==
    LET fit == IF pos + symbol_samples > BufLen(buf) THEN 0
               ELSE (BufLen(buf) - pos) \div symbol_samples     \* windows inside the buffer
        count == FirstBreak(freqs, buf, pos, symbol_samples, 0, fit - 1)
    IN [j \in 1..count |->
          detect_symbol(freqs, Window(buf, pos + (j - 1) * symbol_samples, symbol_samples))]

PairNibblesLowFirst(nibbles) ==
    [k \in 1..(Len(nibbles) \div 2) |->
        ((nibbles[2 * k] * 16) % 256) + (nibbles[2 * k - 1] % 16)]

\* nibbles.chunks(2): a trailing unpaired nibble is dropped
PairNibbles(nibbles) ==
    [k \in 1..(Len(nibbles) \div 2) |->
        ((nibbles[2 * k - 1] * 16) % 256) + (nibbles[2 * k] % 16)]

\* MFSKDemodulator::demodulate
Demodulate(cfg, freqs, buf) ==
    LET start_pos == detect_wake_up(freqs, buf)
    IN IF ~start_pos.ok THEN None
       ELSE LET symbol_samples == NumSamples(cfg.symbol_duration_ms)
                pos == start_pos.val + GuardSamples
                nibbles == ReadSymbols(freqs, buf, pos, symbol_samples)
                bytes == PairNibbles(nibbles)
            IN IF bytes = <<>> THEN None ELSE Ok(bytes)

----------------------------------------------------------------------------
(* codec.rs: compress / decompress (lz4_flex, size-prepended block).       *)
(*                                                                         *)
(* compress emits the little-endian u32 length and one LZ4 block.  The     *)
(* block of an input in which no four consecutive bytes occur twice is a   *)
(* single literal run: token, length extension bytes, the literals.  Every *)
(* input explored has that shape.  decompress reads literal runs and       *)
(* matches.                                                                *)

U32LE(n) == <<n % 256, (n \div 256) % 256, (n \div 65536) % 256, (n \div 16777216) % 256>>

ReadU32LE(s, at) ==
    s[at + 1] + s[at + 2] * 256 + s[at + 3] * 65536 + s[at + 4] * 16777216

RECURSIVE Lz4LenExt(_)
Lz4LenExt(rest) == IF rest >= 255 THEN <<255>> \o Lz4LenExt(rest - 255) ELSE <<rest>>

Lz4Literals(lits) ==
    IF Len(lits) < 15 THEN <<Len(lits) * 16>> \o lits
    ELSE <<240>> \o Lz4LenExt(Len(lits) - 15) \o lits

compress(bytes) == U32LE(Len(bytes)) \o Lz4Literals(bytes)

\* a length nibble and its extension bytes from position at (1-based):
\* [ok, len, at] with at the position after the extension
RECURSIVE Lz4ReadExt(_, _, _)
Lz4ReadExt(s, at, acc) ==
    IF at > Len(s) THEN [ok |-> FALSE, len |-> 0, at |-> at]
    ELSE IF s[at] = 255 THEN Lz4ReadExt(s, at + 1, acc + 255)
    ELSE [ok |-> TRUE, len |-> acc + s[at], at |-> at + 1]

Lz4ReadLen(s, at, nibble) ==
    IF nibble < 15 THEN [ok |-> TRUE, len |-> nibble, at |-> at]
    ELSE Lz4ReadExt(s, at, 15)

RECURSIVE Lz4Copy(_, _, _)
Lz4Copy(out, offset, n) ==
    IF n = 0 THEN out ELSE Lz4Copy(Append(out, out[Len(out) - offset + 1]), offset, n - 1)

RECURSIVE Lz4Block(_, _, _)
Lz4Block(s, at, out) ==
    IF at > Len(s) THEN Ok(out)
    ELSE LET token == s[at]
             lit == Lz4ReadLen(s, at + 1, token \div 16)
         IN IF ~lit.ok \/ lit.at + lit.len - 1 > Len(s) THEN Err("Compression")
            ELSE LET out1 == out \o SubVec(s, lit.at - 1, lit.at - 1 + lit.len)
                     mat == lit.at + lit.len
                 IN IF mat > Len(s) THEN Ok(out1)
                    ELSE IF mat + 1 > Len(s) THEN Err("Compression")
                    ELSE LET offset == s[mat] + 256 * s[mat + 1]
                             mlen == Lz4ReadLen(s, mat + 2, token % 16)
                         IN IF ~mlen.ok \/ offset = 0 \/ offset > Len(out1)
                            THEN Err("Compression")
                            ELSE Lz4Block(s, mlen.at, Lz4Copy(out1, offset, mlen.len + 4))

decompress(bytes) ==
    IF Len(bytes) < 4 THEN Err("Compression")
    ELSE LET size == ReadU32LE(bytes, 0)
             out == Lz4Block(SubVec(bytes, 4, Len(bytes)), 1, <<>>)
         IN IF out.ok /\ Len(out.val) > size THEN Err("Compression") ELSE out

----------------------------------------------------------------------------
(* codec.rs: ReedSolomonCodec over GF(2^8) (reed_solomon_erasure::galois_8) *)

ECC_DATA_SHARDS == 8

ECC_PARITY_SHARDS == 4

GfPoly == 285       \* x^8 + x^4 + x^3 + x^2 + 1

GfDouble(a) == IF 2 * a >= 256 THEN Xor(2 * a, GfPoly) ELSE 2 * a

RECURSIVE GfMul(_, _)
GfMul(a, b) ==          \* the product in GF(2^8): shift and add
    IF a = 0 \/ b = 0 THEN 0
    ELSE Xor(IF b % 2 = 1 THEN a ELSE 0, GfMul(GfDouble(a), b \div 2))

\* the parity rows of ReedSolomon::new(8, 4): the last four rows of
\* vandermonde(12, 8) * inverse(its top 8 rows)
ParityMatrix ==
    << <<26, 132, 186, 51, 231, 16, 198, 39>>,
       <<132, 26, 51, 186, 16, 231, 39, 198>>,
       <<186, 51, 26, 132, 198, 39, 231, 16>>,
       <<51, 186, 132, 26, 39, 198, 16, 231>> >>

RECURSIVE ParityByte(_, _, _, _)
ParityByte(row, shards, k, i) ==      \* xor over data shards i..8 of row[i] * shard_i[k]
    IF i > ECC_DATA_SHARDS THEN 0
    ELSE Xor(GfMul(row[i], shards[i][k]), ParityByte(row, shards, k, i + 1))

RECURSIVE Concat(_)
Concat(seqs) == IF seqs = <<>> THEN <<>> ELSE Head(seqs) \o Concat(Tail(seqs))

\* ReedSolomonCodec::encode
RsEncode(bytes) ==
    LET shard_size == (Len(bytes) + ECC_DATA_SHARDS - 1) \div ECC_DATA_SHARDS
        data_shard(i) ==
            [k \in 1..shard_size |->
                IF (i - 1) * shard_size + k <= Len(bytes)
                THEN bytes[(i - 1) * shard_size + k] ELSE 0]
        dshards == [i \in 1..ECC_DATA_SHARDS |-> data_shard(i)]
        pshards == [j \in 1..ECC_PARITY_SHARDS |->
                      [k \in 1..shard_size |-> ParityByte(ParityMatrix[j], dshards, k, 1)]]
    IN IF shard_size = 0 THEN Err("ErrorCorrection")      \* rs.encode: EmptyShard
       ELSE Ok(U32BE(Len(bytes)) \o U32BE(shard_size)
               \o Concat(dshards) \o Concat(pshards))

\* n * w + k for a u32 w = <<high 16, low 16>> and small n, k: <<high part, low 16>>,
\* the high part not reduced
WideMulAdd(n, w, k) ==
    LET lo == n * w[2] + k
    IN <<n * w[1] + (lo \div 65536), lo % 65536>>

WideLess(n, w) ==       \* n < w for a natural n
    \/ n \div 65536 < w[1]
    \/ n \div 65536 = w[1] /\ n % 65536 < w[2]

\* ReedSolomonCodec::decode: every shard is handed to reconstruct as present.
\* usize arithmetic is that of the target: 8 + total_shards * shard_size wraps
\* modulo 2^32 on a 32-bit target without overflow checks and panics with them.
RsDecode(tgt, enc) ==
    IF Len(enc) < 8 THEN Err("ErrorCorrection")
    ELSE LET original_len == ReadWide32BE(enc, 0)
             shard_size == ReadWide32BE(enc, 4)
             total_shards == ECC_DATA_SHARDS + ECC_PARITY_SHARDS
             exact == WideMulAdd(total_shards, shard_size, 8)
             overflow == tgt.usize_bits = 32 /\ exact[1] >= 65536
             expected_len == IF tgt.usize_bits = 32 THEN <<exact[1] % 65536, exact[2]>>
                             ELSE exact
         IN IF overflow /\ tgt.overflow_checks THEN Panic
            ELSE IF WideLess(Len(enc), expected_len) THEN Err("ErrorCorrection")
            \* encoded[start..end] of the first shard: end = 8 + shard_size
            ELSE IF WideLess(Len(enc), WideMulAdd(1, shard_size, 8)) THEN Panic
            ELSE IF shard_size = <<0, 0>> THEN Err("ErrorCorrection")   \* reconstruct: EmptyShard
            \* Vec::with_capacity(original_len): capacity overflow above isize::MAX
            ELSE IF tgt.usize_bits = 32 /\ original_len[1] >= 32768 THEN Panic
            ELSE LET result == SubVec(enc, 8, 8 + ECC_DATA_SHARDS * shard_size[2])
                 IN IF WideLess(Len(result), original_len) THEN Ok(result)
                    ELSE Ok(SubVec(result, 0, original_len[2]))

----------------------------------------------------------------------------
(* The channel: what may happen to a frame between sender and receiver *)

FlipBit(bytes, bit) ==       \* bit 0 is the most significant bit of the first byte
    [bytes EXCEPT ![(bit \div 8) + 1] = Xor(@, 2 ^ (7 - (bit % 8)))]

\* the 0-based byte range [lo, hi) of shard i (0..11) inside an ECC block
ShardLo(shard_size, i) == 8 + i * shard_size

InShards(shard_size, S, at) ==      \* is 0-based offset at of the block in a shard of S
    \E i \in S : ShardLo(shard_size, i) <= at /\ at < ShardLo(shard_size, i + 1)

ZeroShards(blk, S) ==
    LET shard_size == ReadU32BE(blk, 4)
    IN [k \in 1..Len(blk) |-> IF InShards(shard_size, S, k - 1) THEN 0 ELSE blk[k]]

\* the serialized packet with every byte of the shards S of its payload inverted
CorruptShards(bytes, S) ==
    LET shard_size == ReadU32BE(bytes, HEADER_SIZE + 4)
    IN [k \in 1..Len(bytes) |->
          IF k > HEADER_SIZE /\ InShards(shard_size, S, k - 1 - HEADER_SIZE)
          THEN 255 - bytes[k] ELSE bytes[k]]

ShardSets ==
    {S \in SUBSET (0..(ECC_DATA_SHARDS + ECC_PARITY_SHARDS - 1)) :
        Cardinality(S) <= ECC_PARITY_SHARDS}

PrependSilence(buf, lead) ==
    IF lead = 0 THEN buf
    ELSE <<Silence(0, lead)>> \o [k \in 1..Len(buf) |-> [buf[k] EXCEPT !.start = @ + lead]]

----------------------------------------------------------------------------
(* The pipeline of main.rs (send_data / receive_data / run_test), one      *)
(* action per stage.  A stage that returns Err ends the run ("failed").    *)

Stage(result, next) == IF result.ok THEN next ELSE "failed"

Compress ==
    /\ pc = "data"
    /\ compressed' = compress(data)
    /\ pc' = "compressed"
    /\ UNCHANGED <<target, demod_vars, rec_vars, play_vars>>
    /\ UNCHANGED <<config, frequencies, data, encoded, block, packet, packet_data, wire,
                   samples, capture, decoded_data, decoded_packet, ecc_decoded,
                   decompressed, damage>>

EccEncode ==
    /\ pc = "compressed"
    /\ LET r == RsEncode(compressed)
       IN encoded' = r /\ pc' = Stage(r, "encoded")
    /\ UNCHANGED <<target, demod_vars, rec_vars, play_vars>>
    /\ UNCHANGED <<config, frequencies, data, compressed, block, packet, packet_data, wire,
                   samples, capture, decoded_data, decoded_packet, ecc_decoded,
                   decompressed, damage>>

MakePacket ==
    /\ pc = "encoded"
    /\ LET r == PacketNew(encoded.val)
       IN packet' = r /\ pc' = Stage(r, "packet")
    /\ UNCHANGED <<target, demod_vars, rec_vars, play_vars>>
    /\ UNCHANGED <<config, frequencies, data, compressed, encoded, block, packet_data, wire,
                   samples, capture, decoded_data, decoded_packet, ecc_decoded,
                   decompressed, damage>>

Serialize ==
    /\ pc = "packet"
    /\ packet_data' = PacketSerialize(packet.val)
    /\ pc' = "serialized"
    /\ UNCHANGED <<target, demod_vars, rec_vars, play_vars>>
    /\ UNCHANGED <<config, frequencies, data, compressed, encoded, block, packet, wire,
                   samples, capture, decoded_data, decoded_packet, ecc_decoded,
                   decompressed, damage>>

ModulateFrame ==
    /\ pc = "serialized"
    /\ samples' = Modulate(config, packet_data)
    /\ pc' = "modulated"
    /\ UNCHANGED <<target, demod_vars, rec_vars, play_vars>>
    /\ UNCHANGED <<config, frequencies, data, compressed, encoded, block, packet,
                   packet_data, wire, capture, decoded_data, decoded_packet, ecc_decoded,
                   decompressed, damage>>

\* the receiver's buffer: the frame after lead zero samples
Air(lead) ==
    /\ pc = "modulated"
    /\ capture' = PrependSilence(samples, lead)
    /\ damage' = IF lead = 0 THEN damage ELSE [kind |-> "silence", at |-> {lead}]
    /\ pc' = "capture"
    /\ UNCHANGED <<target, demod_vars, rec_vars, play_vars>>
    /\ UNCHANGED <<config, frequencies, data, compressed, encoded, block, packet,
                   packet_data, wire, samples, decoded_data, decoded_packet, ecc_decoded,
                   decompressed>>

DemodulateFrame ==
    /\ pc = "capture"
    /\ LET r == Demodulate(config, frequencies, capture)
       IN /\ decoded_data' = r
          /\ wire' = r.val
          /\ pc' = Stage(r, "wire")
    /\ loop_start_pos' = detect_wake_up(frequencies, capture)
    /\ UNCHANGED <<target, loop_pos, loop_nibbles, rec_vars, play_vars>>
    /\ UNCHANGED <<config, frequencies, data, compressed, encoded, block, packet,
                   packet_data, samples, capture, decoded_packet, ecc_decoded,
                   decompressed, damage>>

\* up to four shards of the received frame are corrupt
DamageShards(S) ==
    /\ pc = "wire"
    /\ damage = NoDamage
    /\ S # {}
    /\ wire' = CorruptShards(wire, S)
    /\ damage' = [kind |-> "shards", at |-> S]
    /\ UNCHANGED <<target, demod_vars, rec_vars, play_vars>>
    /\ UNCHANGED <<pc, config, frequencies, data, compressed, encoded, block, packet,
                   packet_data, samples, capture, decoded_data, decoded_packet,
                   ecc_decoded, decompressed>>

Deserialize ==
    /\ pc = "wire"
    /\ LET r == PacketDeserialize(wire)
       IN /\ decoded_packet' = r
          /\ block' = IF r.ok THEN r.val.payload ELSE block
          /\ pc' = Stage(r, "block")
    /\ UNCHANGED <<target, demod_vars, rec_vars, play_vars>>
    /\ UNCHANGED <<config, frequencies, data, compressed, encoded, packet, packet_data,
                   wire, samples, capture, decoded_data, ecc_decoded, decompressed, damage>>

EccDecode ==
    /\ pc = "block"
    /\ LET r == RsDecode(target, block)
       IN ecc_decoded' = r /\ pc' = Stage(r, "ecc_decoded")
    /\ UNCHANGED <<target, demod_vars, rec_vars, play_vars>>
    /\ UNCHANGED <<config, frequencies, data, compressed, encoded, block, packet,
                   packet_data, wire, samples, capture, decoded_data, decoded_packet,
                   decompressed, damage>>

Decompress ==
    /\ pc = "ecc_decoded"
    /\ LET r == decompress(ecc_decoded.val)
       IN decompressed' = r /\ pc' = Stage(r, "done")
    /\ UNCHANGED <<target, demod_vars, rec_vars, play_vars>>
    /\ UNCHANGED <<config, frequencies, data, compressed, encoded, block, packet,
                   packet_data, wire, samples, capture, decoded_data, decoded_packet,
                   ecc_decoded, damage>>

----------------------------------------------------------------------------
(* MFSKDemodulator::demodulate, one action per step of its body: the       *)
(* wake-up scan, each iteration of the symbol loop, the pairing of the     *)
(* nibbles.  An empty window (symbol_samples = 0) gives goertzel = NaN in  *)
(* the code, for which every comparison is false and max keeps 0.0: no     *)
(* wake-up hit and symbol 0, which is what the zero magnitudes here give.  *)

SymbolSamples == NumSamples(config.symbol_duration_ms)

\* let start_pos = self.detect_wake_up(samples)?; let mut pos = start_pos + guard
DetectWakeUp ==
    /\ pc = "capture"
    /\ LET r == detect_wake_up(frequencies, capture)
       IN /\ loop_start_pos' = r
          /\ loop_pos' = IF r.ok THEN r.val + GuardSamples ELSE loop_pos
          /\ decoded_data' = IF r.ok THEN decoded_data ELSE None
          /\ pc' = Stage(r, "symbols")
    /\ loop_nibbles' = <<>>
    /\ UNCHANGED <<target, rec_vars, play_vars>>
    /\ UNCHANGED <<config, frequencies, data, compressed, encoded, block, packet,
                   packet_data, wire, samples, capture, decoded_packet, ecc_decoded,
                   decompressed, damage>>

\* the loop condition and the break
LoopEnds ==
    \/ loop_pos + SymbolSamples > BufLen(capture)
    \/ WakeHit(frequencies, Window(capture, loop_pos, SymbolSamples))

\* one iteration that reads a symbol: nibbles.push(symbol); pos += symbol_samples
SymbolStep ==
    /\ pc = "symbols"
    /\ ~LoopEnds
    /\ loop_nibbles' =
          IF Len(loop_nibbles) < MaxNibbles
          THEN Append(loop_nibbles,
                      detect_symbol(frequencies, Window(capture, loop_pos, SymbolSamples)))
          ELSE loop_nibbles
    /\ loop_pos' = loop_pos + SymbolSamples
    /\ UNCHANGED <<target, loop_start_pos, rec_vars, play_vars>>
    /\ UNCHANGED pipeline_vars

\* after the loop: pair the nibbles, None when no byte came out
FinishDemodulate ==
    /\ pc = "symbols"
    /\ LoopEnds
    /\ LET bytes == PairNibbles(loop_nibbles)
           r == IF bytes = <<>> THEN None ELSE Ok(bytes)
       IN /\ decoded_data' = r
          /\ wire' = r.val
          /\ pc' = Stage(r, "wire")
    /\ UNCHANGED <<target, demod_vars, rec_vars, play_vars>>
    /\ UNCHANGED <<config, frequencies, data, compressed, encoded, block, packet,
                   packet_data, samples, capture, decoded_packet, ecc_decoded,
                   decompressed, damage>>

\* the receiver's buffer is something other than a frame of this sender
Hear(buf) ==
    /\ pc = "serialized"
    /\ capture' = buf
    /\ damage' = [kind |-> "fragment", at |-> {}]
    /\ pc' = "capture"
    /\ UNCHANGED <<target, demod_vars, rec_vars, play_vars>>
    /\ UNCHANGED <<config, frequencies, data, compressed, encoded, block, packet,
                   packet_data, wire, samples, decoded_data, decoded_packet, ecc_decoded,
                   decompressed>>

----------------------------------------------------------------------------
(* audio.rs: AudioInput::record_until_complete.  Two threads: the input    *)
(* callback of the audio host, which appends each block it is given to the *)
(* shared buffer, and the caller's polling loop.  Each access to the       *)
(* buffer is one critical section of its mutex.  The k-th sample the       *)
(* device delivers has the value k.  Time is counted in polling periods    *)
(* (50 ms).                                                                *)

IsPrefix(a, b) == Len(a) <= Len(b) /\ \A i \in 1..Len(a) : a[i] = b[i]

ExtendFrontFromSlice(buf, blk) == blk \o buf

ExtendFromSlice(buf, blk) == buf \o blk          \* samples.extend_from_slice(data)

TimedOutAtLimit(el, limit) == el >= limit

TimedOut(el, limit) == el > limit                \* start.elapsed() > timeout

\* the stream exists and runs: from stream.play() to drop(stream) / return
StreamAlive == rec_pc \in {"sleep", "clone", "check", "elapsed", "drop"}

\* stream.play(); let start = Instant::now()
StartCapture ==
    /\ rec_pc = "build"
    /\ elapsed' = 0
    /\ rec_pc' = "sleep"
    /\ UNCHANGED <<rec_samples, current_samples, check_calls, check_result, timeout,
                   rec_result>>
    /\ UNCHANGED <<pipeline_vars, target, demod_vars, play_vars>>

\* the input callback: a block of n samples arrives
InputCallback(n) ==
    /\ StreamAlive
    /\ Len(rec_samples) + n <= MaxCaptured
    /\ rec_samples' =
          ExtendFromSlice(rec_samples, [i \in 1..n |-> Len(rec_samples) + i])
    /\ UNCHANGED <<rec_pc, current_samples, check_calls, check_result, elapsed, timeout,
                   rec_result>>
    /\ UNCHANGED <<pipeline_vars, target, demod_vars, play_vars>>

\* std::thread::sleep(50 ms): at least one period passes
Sleep(dt) ==
    /\ rec_pc = "sleep"
    /\ elapsed' = elapsed + dt
    /\ rec_pc' = "clone"
    /\ UNCHANGED <<rec_samples, current_samples, check_calls, check_result, timeout,
                   rec_result>>
    /\ UNCHANGED <<pipeline_vars, target, demod_vars, play_vars>>

\* let current_samples = samples.lock().unwrap().clone()
CloneSamples ==
    /\ rec_pc = "clone"
    /\ current_samples' = rec_samples
    /\ rec_pc' = "check"
    /\ UNCHANGED <<rec_samples, check_calls, check_result, elapsed, timeout, rec_result>>
    /\ UNCHANGED <<pipeline_vars, target, demod_vars, play_vars>>

\* if check_fn(&current_samples) { break; }   check_fn is any FnMut(&[f32]) -> bool
CheckFn(answer) ==
    /\ rec_pc = "check"
    /\ check_calls' = check_calls + 1
    /\ check_result' = answer
    /\ rec_pc' = IF answer THEN "drop" ELSE "elapsed"
    /\ UNCHANGED <<rec_samples, current_samples, elapsed, timeout, rec_result>>
    /\ UNCHANGED <<pipeline_vars, target, demod_vars, play_vars>>

\* if start.elapsed() > timeout { return Err(SonicPipeError::Timeout); }
CheckTimeout ==
    /\ rec_pc = "elapsed"
    /\ IF TimedOut(elapsed, timeout)
       THEN rec_result' = Err("Timeout") /\ rec_pc' = "returned"
       ELSE rec_result' = rec_result /\ rec_pc' = "sleep"
    /\ UNCHANGED <<rec_samples, current_samples, check_calls, check_result, elapsed,
                   timeout>>
    /\ UNCHANGED <<pipeline_vars, target, demod_vars, play_vars>>

\* drop(stream)
DropStream ==
    /\ rec_pc = "drop"
    /\ rec_pc' = "result"
    /\ UNCHANGED <<rec_samples, current_samples, check_calls, check_result, elapsed,
                   timeout, rec_result>>
    /\ UNCHANGED <<pipeline_vars, target, demod_vars, play_vars>>

\* let result = samples.lock().unwrap().clone(); Ok(result)
ReturnSamples ==
    /\ rec_pc = "result"
    /\ rec_result' = Ok(rec_samples)
    /\ rec_pc' = "returned"
    /\ UNCHANGED <<rec_samples, current_samples, check_calls, check_result, elapsed,
                   timeout>>
    /\ UNCHANGED <<pipeline_vars, target, demod_vars, play_vars>>

\* the steps of the thread that called record_until_complete
PollingLoop ==
    \/ StartCapture
    \/ \E dt \in 1..MaxSleep : Sleep(dt)
    \/ CloneSamples
    \/ \E answer \in BOOLEAN : CheckFn(answer)
    \/ CheckTimeout
    \/ DropStream
    \/ ReturnSamples

----------------------------------------------------------------------------
(* audio.rs: AudioOutput::play_samples.  Two threads: the output callback  *)
(* of the audio host, which fills the data buffer it is given from the     *)
(* samples, and the caller, which polls the finished flag.  Each mutex is  *)
(* "free" or owned by "cb" or "main"; taking one is a step of its own.     *)
(* driver is what the callback has written into its data buffers.  The     *)
(* samples to play are 1, 2, 3, ...; the padding is 0.                     *)

HasSampleButLast(p, buf) == p + 1 < Len(buf)

HasSample(p, buf) == p < Len(buf)                \* *pos < samples.len()

\* the stream exists and runs: from stream.play() to the return of play_samples
OutputAlive == play_pc \in {"sleep", "lock", "read", "tail"}

\* stream.play()
StartPlayback ==
    /\ play_pc = "build"
    /\ play_pc' = "sleep"
    /\ UNCHANGED <<cb_pc, out_samples, position, finished, cb_left, driver, locks>>
    /\ UNCHANGED <<pipeline_vars, target, demod_vars, rec_vars>>

\* std::thread::sleep(10 ms)
PollSleep ==
    /\ play_pc = "sleep"
    /\ play_pc' = "lock"
    /\ UNCHANGED <<cb_pc, out_samples, position, finished, cb_left, driver, locks>>
    /\ UNCHANGED <<pipeline_vars, target, demod_vars, rec_vars>>

\* finished.lock()
LockFinished ==
    /\ play_pc = "lock"
    /\ locks.finished = "free"
    /\ locks' = [locks EXCEPT !.finished = "main"]
    /\ play_pc' = "read"
    /\ UNCHANGED <<cb_pc, out_samples, position, finished, cb_left, driver>>
    /\ UNCHANGED <<pipeline_vars, target, demod_vars, rec_vars>>

\* if *finished.lock().unwrap() { break; }   the guard is dropped after the read
ReadFinished ==
    /\ play_pc = "read"
    /\ locks' = [locks EXCEPT !.finished = "free"]
    /\ play_pc' = IF finished THEN "tail" ELSE "sleep"
    /\ UNCHANGED <<cb_pc, out_samples, position, finished, cb_left, driver>>
    /\ UNCHANGED <<pipeline_vars, target, demod_vars, rec_vars>>

\* std::thread::sleep(100 ms); Ok(())
TailSleep ==
    /\ play_pc = "tail"
    /\ play_pc' = "returned"
    /\ UNCHANGED <<cb_pc, out_samples, position, finished, cb_left, driver, locks>>
    /\ UNCHANGED <<pipeline_vars, target, demod_vars, rec_vars>>

\* the steps of the thread that called play_samples
PlayPolling ==
    \/ StartPlayback
    \/ PollSleep
    \/ LockFinished
    \/ ReadFinished
    \/ TailSleep

\* the host calls the output callback with a data buffer of n slots
OutputCallback(n) ==
    /\ OutputAlive
    /\ cb_pc = "idle"
    /\ Len(driver) + n <= Len(out_samples) + MaxTail
    /\ cb_left' = n
    /\ cb_pc' = "lock_samples"
    /\ UNCHANGED <<play_pc, out_samples, position, finished, driver, locks>>
    /\ UNCHANGED <<pipeline_vars, target, demod_vars, rec_vars>>

\* let samples = samples_clone.lock().unwrap()
CbLockSamples ==
    /\ cb_pc = "lock_samples"
    /\ locks.samples = "free"
    /\ locks' = [locks EXCEPT !.samples = "cb"]
    /\ cb_pc' = "lock_position"
    /\ UNCHANGED <<play_pc, out_samples, position, finished, cb_left, driver>>
    /\ UNCHANGED <<pipeline_vars, target, demod_vars, rec_vars>>

\* let mut pos = position_clone.lock().unwrap()
CbLockPosition ==
    /\ cb_pc = "lock_position"
    /\ locks.position = "free"
    /\ locks' = [locks EXCEPT !.position = "cb"]
    /\ cb_pc' = "fill"
    /\ UNCHANGED <<play_pc, out_samples, position, finished, cb_left, driver>>
    /\ UNCHANGED <<pipeline_vars, target, demod_vars, rec_vars>>

\* one slot of for sample in data.iter_mut(): the next sample, or 0.0
CbFill ==
    /\ cb_pc = "fill"
    /\ cb_left > 0
    /\ IF HasSample(position, out_samples)
       THEN /\ driver' = Append(driver, out_samples[position + 1])
            /\ position' = position + 1
            /\ cb_left' = cb_left - 1
            /\ cb_pc' = "fill"
       ELSE /\ driver' = Append(driver, 0)
            /\ cb_pc' = "lock_finished"
            /\ UNCHANGED <<position, cb_left>>
    /\ UNCHANGED <<play_pc, out_samples, finished, locks>>
    /\ UNCHANGED <<pipeline_vars, target, demod_vars, rec_vars>>

\* finished_clone.lock(), with the samples and position locks held
CbLockFinished ==
    /\ cb_pc = "lock_finished"
    /\ locks.finished = "free"
    /\ locks' = [locks EXCEPT !.finished = "cb"]
    /\ cb_pc' = "set_finished"
    /\ UNCHANGED <<play_pc, out_samples, position, finished, cb_left, driver>>
    /\ UNCHANGED <<pipeline_vars, target, demod_vars, rec_vars>>

\* *finished_clone.lock().unwrap() = true;   the guard is dropped after the store
CbSetFinished ==
    /\ cb_pc = "set_finished"
    /\ finished' = TRUE
    /\ locks' = [locks EXCEPT !.finished = "free"]
    /\ cb_left' = cb_left - 1
    /\ cb_pc' = "fill"
    /\ UNCHANGED <<play_pc, out_samples, position, driver>>
    /\ UNCHANGED <<pipeline_vars, target, demod_vars, rec_vars>>

\* the closure returns: pos and samples guards are dropped
CbReturn ==
    /\ cb_pc = "fill"
    /\ cb_left = 0
    /\ locks' = [locks EXCEPT !.position = "free", !.samples = "free"]
    /\ cb_pc' = "idle"
    /\ UNCHANGED <<play_pc, out_samples, position, finished, cb_left, driver>>
    /\ UNCHANGED <<pipeline_vars, target, demod_vars, rec_vars>>

\* the steps of the audio thread
OutputThread ==
    \/ \E n \in 1..MaxBlock : OutputCallback(n)
    \/ CbLockSamples
    \/ CbLockPosition
    \/ CbFill
    \/ CbLockFinished
    \/ CbSetFinished
    \/ CbReturn

----------------------------------------------------------------------------
(* Stage-level runs: the packet alone, the ECC codec alone *)

\* the serialized packet reaches deserialize unchanged
Deliver ==
    /\ pc = "serialized"
    /\ wire' = packet_data
    /\ pc' = "wire"
    /\ UNCHANGED <<target, demod_vars, rec_vars, play_vars>>
    /\ UNCHANGED <<config, frequencies, data, compressed, encoded, block, packet,
                   packet_data, samples, capture, decoded_data, decoded_packet,
                   ecc_decoded, decompressed, damage>>

\* the serialized packet reaches deserialize with one bit flipped
DeliverFlipped(bit) ==
    /\ pc = "serialized"
    /\ Len(packet_data) <= MaxFlipLen
    /\ bit < 8 * Len(packet_data)
    /\ wire' = FlipBit(packet_data, bit)
    /\ damage' = [kind |-> "bit", at |-> {bit}]
    /\ pc' = "wire"
    /\ UNCHANGED <<target, demod_vars, rec_vars, play_vars>>
    /\ UNCHANGED <<config, frequencies, data, compressed, encoded, block, packet,
                   packet_data, samples, capture, decoded_data, decoded_packet,
                   ecc_decoded, decompressed>>

\* bytes that no Packet::serialize produced reach deserialize
DeliverForeign(d) ==
    /\ pc = "encoded"
    /\ wire' = d
    /\ damage' = [kind |-> "foreign", at |-> {}]
    /\ pc' = "wire"
    /\ UNCHANGED <<target, demod_vars, rec_vars, play_vars>>
    /\ UNCHANGED <<config, frequencies, data, compressed, encoded, block, packet,
                   packet_data, samples, capture, decoded_data, decoded_packet,
                   ecc_decoded, decompressed>>

\* bytes that no ReedSolomonCodec::encode produced reach decode (the payload of
\* a received packet)
ReceiveBlock(b) ==
    /\ pc = "compressed"
    /\ block' = b
    /\ damage' = [kind |-> "foreign", at |-> {}]
    /\ pc' = "block"
    /\ UNCHANGED <<target, demod_vars, rec_vars, play_vars>>
    /\ UNCHANGED <<config, frequencies, data, compressed, encoded, packet, packet_data,
                   wire, samples, capture, decoded_data, decoded_packet, ecc_decoded,
                   decompressed>>

\* the shards S of the encoded block are overwritten with zeros
Erase(S) ==
    /\ pc = "encoded"
    /\ block' = ZeroShards(encoded.val, S)
    /\ damage' = [kind |-> "erased", at |-> S]
    /\ pc' = "block"
    /\ UNCHANGED <<target, demod_vars, rec_vars, play_vars>>
    /\ UNCHANGED <<config, frequencies, data, compressed, encoded, packet, packet_data,
                   wire, samples, capture, decoded_data, decoded_packet, ecc_decoded,
                   decompressed>>

----------------------------------------------------------------------------
(* Inputs and specifications *)

SeqsUpTo(S, n) == UNION {[1..k -> S] : k \in 0..n}

\* n bytes in which no four consecutive bytes occur twice (incompressible)
Noise(n) == [i \in 1..n |-> ((i * i) + (i \div 7)) % 256]

PacketBytes == {0, 97, 255}

PacketPayloads ==
    SeqsUpTo(PacketBytes, MaxPayloadLen)
        \cup {<<97, 98, 99>>, <<0, 0, 0, 0>>}
        \cup {Noise(n) : n \in (MAX_PAYLOAD_SIZE - 1)..(MAX_PAYLOAD_SIZE + 1)}

ForeignBytes == {0, 1}

\* a frame with the layout of serialize around any payload, valid CRC-32
Framed(payload) ==
    <<PROTOCOL_VERSION>> \o U16BE(Len(payload)) \o <<0>> \o payload
        \o Wide32BE(Crc32(payload))

ForeignFrames ==
    SeqsUpTo(ForeignBytes, MaxForeignLen)
        \cup {Framed(<<97>>), Framed(Noise(MAX_PAYLOAD_SIZE)),
              Framed(Noise(MAX_PAYLOAD_SIZE + 1))}

ModemBytes == {0, 52, 171, 255}

ModemInputs ==
    (SeqsUpTo(ModemBytes, MaxModemLen) \ {<<>>})
        \cup {<<171, 205, 18, 52>>, <<1, 35, 69, 103, 137, 171, 205, 239>>}

\* symbol_duration_ms as --symbol-duration / set_symbol_duration accept it
SymbolDurations == {0, 20, DEFAULT_SYMBOL_DURATION_MS, 200, 500}

DemodConfigs ==
    {[mode |-> m, symbol_duration_ms |-> d] :
        m \in {"Audible", "Ultrasonic"}, d \in SymbolDurations}

DemodInputs == {<<>>, <<0>>, <<171>>, <<52, 255>>, <<171, 205, 18, 52>>}

\* a lone tone at the wake-up frequency of 25, 50 or 100 ms after 0..1200 zero
\* samples
ScanBuffers ==
    {PrependSilence(<<Tone(WAKE_UP_FREQUENCY, 0, d)>>, lead) :
        d \in {25, 50, 100}, lead \in {0, 300, 600, 1200}}

CodecInputs ==
    {[i \in 1..n |-> i] : n \in {0, 1, 3, 8, 9, 16, 35}}
        \cup {<<0, 0, 7>>, <<5, 0, 0, 0, 0, 0, 0, 0, 6>>}

\* blocks with a header of any shape: short ones, and headers whose shard_size
\* is 1, 2, 2^16, 0x15555556 (12 * shard_size = 2^32 + 8), 2^31, 2^32 - 1
ForeignBlocks ==
    SeqsUpTo(ForeignBytes, MaxForeignLen)
        \cup {<<0, 0, 0, 1>> \o size \o [i \in 1..n |-> i] :
                size \in {<<0, 0, 0, 1>>, <<0, 0, 0, 2>>, <<0, 1, 0, 0>>, <<21, 85, 85, 86>>,
                          <<128, 0, 0, 0>>, <<255, 255, 255, 255>>},
                n \in {0, 7, 8, 11, 12, 24}}
        \cup {<<255, 255, 255, 255, 0, 0, 0, 1>> \o [i \in 1..12 |-> i]}

HelloSonicPipe ==       \* "Hello, Sonic-Pipe!"
    <<72, 101, 108, 108, 111, 44, 32, 83, 111, 110, 105, 99, 45, 80, 105, 112, 101, 33>>

Messages ==
    {HelloSonicPipe, <<65>>, <<72, 105>>, <<97, 98, 99>>, <<115, 111, 110, 105, 99>>,
     <<97, 105, 114, 32, 103, 97, 112>>, Noise(MAX_PAYLOAD_SIZE)}

Configs ==
    {[mode |-> m, symbol_duration_ms |-> DEFAULT_SYMBOL_DURATION_MS] :
        m \in {"Audible", "Ultrasonic"}}

LeadSilences == {0, SAMPLE_RATE \div 2}       \* none, 0.5 s

DemodIdle == loop_start_pos = Unset /\ loop_pos = 0 /\ loop_nibbles = <<>>

RecIdle ==
    /\ rec_pc = "idle" /\ rec_samples = <<>> /\ current_samples = <<>>
    /\ check_calls = 0 /\ check_result = FALSE /\ elapsed = 0 /\ timeout = 0
    /\ rec_result = Unset

NoLocks == [samples |-> "free", position |-> "free", finished |-> "free"]

PlayIdle ==
    /\ play_pc = "idle" /\ cb_pc = "idle" /\ out_samples = <<>> /\ position = 0
    /\ finished = FALSE /\ cb_left = 0 /\ driver = <<>> /\ locks = NoLocks

Fresh ==      \* nothing has run yet
    /\ compressed = <<>> /\ encoded = Unset /\ block = <<>> /\ packet = Unset
    /\ packet_data = <<>> /\ wire = <<>> /\ samples = <<>> /\ capture = <<>>
    /\ decoded_data = Unset /\ decoded_packet = Unset /\ ecc_decoded = Unset
    /\ decompressed = Unset /\ damage = NoDamage

\* run_test / send_data + receive_data on a user message
Init ==
    /\ pc = "data"
    /\ data \in Messages
    /\ config \in Configs
    /\ frequencies = FrequencyTable(config.mode)
    /\ target = Native
    /\ Fresh /\ DemodIdle /\ RecIdle /\ PlayIdle

Next ==
    \/ Compress
    \/ EccEncode
    \/ MakePacket
    \/ Serialize
    \/ ModulateFrame
    \/ Air(0)
    \/ DemodulateFrame
    \/ \E S \in ShardSets : DamageShards(S)
    \/ Deserialize
    \/ EccDecode
    \/ Decompress

Spec == Init /\ [][Next]_vars

\* Packet::new -> serialize -> (bit flip) -> deserialize on any payload
InitPacket ==
    /\ pc = "encoded"
    /\ data = <<>>
    /\ config = DefaultConfig
    /\ frequencies = FrequencyTable(config.mode)
    /\ compressed = <<>> /\ block = <<>> /\ packet = Unset
    /\ packet_data = <<>> /\ wire = <<>> /\ samples = <<>> /\ capture = <<>>
    /\ decoded_data = Unset /\ decoded_packet = Unset /\ ecc_decoded = Unset
    /\ decompressed = Unset /\ damage = NoDamage
    /\ target = Native /\ DemodIdle /\ RecIdle /\ PlayIdle
    /\ encoded \in {Ok(p) : p \in PacketPayloads}

NextPacket ==
    \/ MakePacket
    \/ Serialize
    \/ Deliver
    \/ \E bit \in 0..(8 * MaxFlipLen - 1) : DeliverFlipped(bit)
    \/ \E d \in ForeignFrames : DeliverForeign(d)
    \/ Deserialize

SpecPacket == InitPacket /\ [][NextPacket]_vars

\* ReedSolomonCodec::encode -> (shards zeroed) -> decode on any byte vector
InitCodec ==
    /\ pc = "compressed"
    /\ data = <<>>
    /\ config = DefaultConfig
    /\ frequencies = FrequencyTable(config.mode)
    /\ encoded = Unset /\ block = <<>> /\ packet = Unset
    /\ packet_data = <<>> /\ wire = <<>> /\ samples = <<>> /\ capture = <<>>
    /\ decoded_data = Unset /\ decoded_packet = Unset /\ ecc_decoded = Unset
    /\ decompressed = Unset /\ damage = NoDamage
    /\ target \in Targets /\ DemodIdle /\ RecIdle /\ PlayIdle
    /\ compressed \in CodecInputs

NextCodec ==
    \/ EccEncode
    \/ \E S \in ShardSets : Erase(S)
    \/ \E b \in ForeignBlocks : ReceiveBlock(b)
    \/ EccDecode

SpecCodec == InitCodec /\ [][NextCodec]_vars

\* modulate -> (leading silence) -> demodulate on any byte vector, both modes
InitModem ==
    /\ pc = "serialized"
    /\ data = <<>>
    /\ config \in Configs
    /\ frequencies = FrequencyTable(config.mode)
    /\ compressed = <<>> /\ encoded = Unset /\ block = <<>> /\ packet = Unset
    /\ wire = <<>> /\ samples = <<>> /\ capture = <<>>
    /\ decoded_data = Unset /\ decoded_packet = Unset /\ ecc_decoded = Unset
    /\ decompressed = Unset /\ damage = NoDamage
    /\ target = Native /\ DemodIdle /\ RecIdle /\ PlayIdle
    /\ packet_data \in ModemInputs

NextModem ==
    \/ ModulateFrame
    \/ \E lead \in LeadSilences : Air(lead)
    \/ DemodulateFrame

SpecModem == InitModem /\ [][NextModem]_vars

\* modulate -> demodulate step by step, any symbol duration, both modes
InitDemod ==
    /\ pc = "serialized"
    /\ data = <<>>
    /\ config \in DemodConfigs
    /\ frequencies = FrequencyTable(config.mode)
    /\ compressed = <<>> /\ encoded = Unset /\ block = <<>> /\ packet = Unset
    /\ wire = <<>> /\ samples = <<>> /\ capture = <<>>
    /\ decoded_data = Unset /\ decoded_packet = Unset /\ ecc_decoded = Unset
    /\ decompressed = Unset /\ damage = NoDamage
    /\ target = Native /\ DemodIdle /\ RecIdle /\ PlayIdle
    /\ packet_data \in DemodInputs

NextDemod ==
    \/ ModulateFrame
    \/ Air(0)
    \/ \E buf \in ScanBuffers : Hear(buf)
    \/ DetectWakeUp
    \/ SymbolStep
    \/ FinishDemodulate

SpecDemod == InitDemod /\ [][NextDemod]_vars

\* no frame is in the pipeline: the run is an audio call
NoPipeline ==
    /\ pc = "audio"
    /\ data = <<>>
    /\ config = DefaultConfig
    /\ frequencies = FrequencyTable(config.mode)
    /\ target = Native
    /\ Fresh

\* record_until_complete(check_fn, timeout_ms)
InitCapture ==
    /\ NoPipeline /\ DemodIdle /\ PlayIdle
    /\ rec_pc = "build" /\ rec_samples = <<>> /\ current_samples = <<>>
    /\ check_calls = 0 /\ check_result = FALSE /\ elapsed = 0
    /\ timeout \in 0..MaxTimeout
    /\ rec_result = Unset

NextCapture ==
    \/ PollingLoop
    \/ \E n \in 1..MaxBlock : InputCallback(n)

SpecCapture == InitCapture /\ [][NextCapture]_vars

\* time advances and check_fn returns: the polling thread keeps running
FairSpecCapture == SpecCapture /\ WF_vars(PollingLoop)

\* play_samples(samples)
InitPlayback ==
    /\ NoPipeline /\ DemodIdle /\ RecIdle
    /\ play_pc = "build" /\ cb_pc = "idle"
    /\ out_samples \in {[i \in 1..k |-> i] : k \in 0..MaxPlayLen}
    /\ position = 0 /\ finished = FALSE /\ cb_left = 0 /\ driver = <<>>
    /\ locks = NoLocks

NextPlayback ==
    \/ PlayPolling
    \/ OutputThread

SpecPlayback == InitPlayback /\ [][NextPlayback]_vars

\* the polling thread keeps running; the audio thread is scheduled fairly and,
\* since the poller holds the finished lock for one read every 10 ms, gets a
\* mutex that is free again and again
FairSpecPlayback == SpecPlayback /\ WF_vars(PlayPolling) /\ SF_vars(OutputThread)

----------------------------------------------------------------------------
(* Properties *)

\* C1: in both modes, with the default symbol window, the wake-up frequency lies
\* in a Goertzel bin different from the bin of every data frequency of the
\* demodulator's table (so W is not in the table).
C1_WakeUpOutsideDataBins ==
    LET n == NumSamples(config.symbol_duration_ms)
    IN \A i \in 1..NUM_TONES :
          Bin(WAKE_UP_FREQUENCY, n) # Bin(frequencies[i], n)

\* C2: noise-free modulation round trip, both modes: demodulate(modulate(x))
\* is Some(x).
C2_ModulationRoundTrip ==
    (pc \in {"wire", "failed"} /\ damage = NoDamage)
        => decoded_data = Ok(packet_data)

C4_KilobyteRoundTrip ==
    (/\ data = Noise(MAX_PAYLOAD_SIZE)
     /\ config = DefaultConfig
     /\ damage = NoDamage)
        => /\ pc # "failed"
           /\ pc = "done" => decompressed = Ok(data)

\* C5: a capture of 0.5 s of silence followed by a noise-free frame of x
\* (Config::default()) demodulates to Some(x).
C5_LeadingSilenceTolerated ==
    (/\ pc \in {"wire", "failed"}
     /\ config = DefaultConfig
     /\ damage.kind = "silence")
        => decoded_data = Ok(packet_data)

\* C6: with any set of at most 4 of the 12 shards of encode(x) overwritten
\* with zeros, decode still returns x.
C6_ErasureTolerance ==
    (pc \in {"ecc_decoded", "failed"} /\ damage.kind = "erased")
        => ecc_decoded = Ok(compressed)

\* C7: a received frame damaged only within up to 4 shards is delivered, not
\* rejected: Reed-Solomon recovery runs before any failure is reported, and
\* ChecksumMismatch is reported only after Reed-Solomon decoding succeeded.
C7_ShardDamageRecovered ==
    (damage.kind = "shards")
        => /\ pc # "failed"
           /\ decoded_packet.err = "ChecksumMismatch" => ecc_decoded.ok
           /\ pc = "done" => decompressed = Ok(data)

\* C8: packet round trip for 0 <= len(payload) <= 1024: the serialized form is
\* version, payload_len (u16 big-endian), flags, payload, CRC-32 (u32
\* big-endian), 8 + len bytes; deserialize of it succeeds with the same payload,
\* checksum = CRC-32(payload) and version = PROTOCOL_VERSION.
C8_PacketRoundTrip ==
    LET payload == encoded.val
        n == Len(payload)
        crc == Crc32(payload)
    IN (n <= MAX_PAYLOAD_SIZE /\ damage = NoDamage) =>
          /\ pc \in {"serialized", "wire", "block", "failed"} =>
                /\ Len(packet_data) = 8 + n
                /\ packet_data[1] = PROTOCOL_VERSION
                /\ packet_data[2] = n \div 256 /\ packet_data[3] = n % 256
                /\ packet_data[4] = 0
                /\ \A k \in 1..n : packet_data[4 + k] = payload[k]
                /\ packet_data[n + 5] = crc[1] \div 256 /\ packet_data[n + 6] = crc[1] % 256
                /\ packet_data[n + 7] = crc[2] \div 256 /\ packet_data[n + 8] = crc[2] % 256
          /\ pc # "failed"
          /\ pc = "block" =>
                /\ decoded_packet.ok
                /\ decoded_packet.val.payload = payload
                /\ decoded_packet.val.checksum = crc
                /\ decoded_packet.val.version = PROTOCOL_VERSION

C8_MaxPayloadRoundTrip ==
    /\ pc = "block"
    /\ damage = NoDamage
    /\ Len(encoded.val) = MAX_PAYLOAD_SIZE
    /\ decoded_packet.ok
    /\ decoded_packet.val.payload = encoded.val

FlippedBit == CHOOSE b \in damage.at : TRUE

\* C9 (as claimed): with any single bit of a valid serialized packet flipped,
\* deserialize never returns Ok: ChecksumMismatch for a bit of the payload or
\* the checksum trailer, ChecksumMismatch or a header-parse error for a bit of
\* the 4-byte header.
C9_AnyBitFlipRejected ==
    (damage.kind = "bit" /\ pc \in {"block", "failed"}) =>
        /\ ~decoded_packet.ok
        /\ FlippedBit >= 8 * HEADER_SIZE => decoded_packet.err = "ChecksumMismatch"
        /\ FlippedBit < 8 * HEADER_SIZE =>
              decoded_packet.err \in {"ChecksumMismatch", "InvalidPacket", "Decoding"}

\* C9 (amended): a flipped bit of the payload or the checksum trailer gives
\* ChecksumMismatch; one that raises payload_len gives InvalidPacket; one in
\* version or flags is not detected (Ok, the same payload and checksum, the
\* altered version or flags); one that lowers payload_len gives
\* ChecksumMismatch, or Ok with the shortened payload when the CRC-32 of the
\* shortened payload equals the four bytes that follow it.
C9_BitFlipDetection ==
    (damage.kind = "bit" /\ pc \in {"block", "failed"}) =>
        LET bit == FlippedBit
            n == Len(encoded.val)
            new_len == ReadU16BE(wire, 1)
        IN /\ bit >= 8 * HEADER_SIZE => decoded_packet = Err("ChecksumMismatch")
           /\ (bit < 8 \/ (24 <= bit /\ bit < 32)) =>
                 /\ decoded_packet.ok
                 /\ decoded_packet.val.payload = encoded.val
                 /\ decoded_packet.val.checksum = packet.val.checksum
                 /\ decoded_packet.val.version = wire[1]
                 /\ decoded_packet.val.flags = wire[4]
                 /\ <<wire[1], wire[4]>> # <<packet.val.version, packet.val.flags>>
           /\ (8 <= bit /\ bit < 24 /\ new_len > n) =>
                 decoded_packet = Err("InvalidPacket")
           /\ (8 <= bit /\ bit < 24 /\ new_len < n) =>
                 \/ decoded_packet = Err("ChecksumMismatch")
                 \/ /\ decoded_packet.ok
                    /\ decoded_packet.val.payload = SubVec(encoded.val, 0, new_len)
                    /\ SubVec(encoded.val, new_len, new_len + 4)
                         = Wide32BE(Crc32(decoded_packet.val.payload))

C9_PayloadFlipCaught ==
    /\ damage.kind = "bit"
    /\ pc = "failed"
    /\ FlippedBit >= 8 * HEADER_SIZE
    /\ FlippedBit < 8 * (HEADER_SIZE + Len(encoded.val))
    /\ encoded.val = <<97, 98, 99>>
    /\ decoded_packet = Err("ChecksumMismatch")

\* C10: Packet::new returns InvalidPacket exactly when len(payload) > 1024;
\* otherwise a Packet with version 1, flags 0, payload_len = len(payload) and
\* checksum = CRC-32(payload).
C10_PacketNewOversize ==
    (packet # Unset) =>
        LET payload == encoded.val
        IN /\ ~packet.ok <=> Len(payload) > MAX_PAYLOAD_SIZE
           /\ ~packet.ok => packet.err = "InvalidPacket"
           /\ packet.ok =>
                 /\ packet.val.version = 1
                 /\ packet.val.flags = 0
                 /\ packet.val.payload_len = Len(payload)
                 /\ packet.val.payload = payload
                 /\ packet.val.checksum = Crc32(payload)

C10_OversizeRejected ==
    /\ pc = "failed"
    /\ Len(encoded.val) = MAX_PAYLOAD_SIZE + 1
    /\ packet = Err("InvalidPacket")

\* C11: every Packet that Packet::new or Packet::deserialize returns, whatever
\* the input bytes, has payload_len = len(payload) and 0 <= payload_len <= 1024.
C11_PacketInvariant ==
    /\ packet.ok =>
          /\ packet.val.payload_len = Len(packet.val.payload)
          /\ packet.val.payload_len <= MAX_PAYLOAD_SIZE
    /\ decoded_packet.ok =>
          /\ decoded_packet.val.payload_len = Len(decoded_packet.val.payload)
          /\ decoded_packet.val.payload_len <= MAX_PAYLOAD_SIZE

\* C12: Reed-Solomon round trip without erasure, for x of any length (0, below
\* 8, not a multiple of 8): encode(x) succeeds with original_len (u32 BE) ||
\* shard_size (u32 BE) || 12 shards of shard_size = ceil(len(x)/8) bytes, and
\* decode of that block returns x.
C12_ReedSolomonRoundTrip ==
    (pc # "compressed" /\ damage = NoDamage) =>
        LET n == Len(compressed)
            shard_size == (n + 7) \div 8
        IN /\ encoded.ok
           /\ Len(encoded.val) = 8 + 12 * shard_size
           /\ SubVec(encoded.val, 0, 4) = U32BE(n)
           /\ SubVec(encoded.val, 4, 8) = U32BE(shard_size)
           /\ pc # "failed"
           /\ pc = "ecc_decoded" => ecc_decoded = Ok(compressed)

\* C13: modulate(B) is one wake-up tone (4800 samples at W), 960 zero samples,
\* for each byte of B in order the tone of its high nibble then the tone of
\* its low nibble (symbol_samples each, contiguous), one wake-up tone;
\* 4800 + 960 + 2*len(B)*symbol_samples + 4800 samples in all.
C13_FrameLayout ==
    (pc = "modulated") =>
        LET B == packet_data
            n == (SAMPLE_RATE * config.symbol_duration_ms) \div 1000
            F == FrequencyTable(config.mode)
            at(k) == 4800 + 960 + (k - 1) * n      \* start of the k-th symbol
        IN /\ Len(samples) = 2 + 2 * Len(B) + 1
           /\ samples[1] = [freq |-> WAKE_UP_FREQUENCY, start |-> 0, len |-> 4800]
           /\ samples[2] = [freq |-> 0, start |-> 4800, len |-> 960]
           /\ \A j \in 1..Len(B) :
                 /\ samples[2 * j + 1] =
                       [freq |-> F[((B[j] \div 16) % 16) + 1], start |-> at(2 * j - 1), len |-> n]
                 /\ samples[2 * j + 2] =
                       [freq |-> F[(B[j] % 16) + 1], start |-> at(2 * j), len |-> n]
           /\ samples[Len(samples)] =
                 [freq |-> WAKE_UP_FREQUENCY, start |-> at(2 * Len(B) + 1), len |-> 4800]
           /\ BufLen(samples) = 4800 + 960 + 2 * Len(B) * n + 4800

C13_FourByteFrame ==
    /\ pc = "modulated"
    /\ packet_data = <<171, 205, 18, 52>>
    /\ config = DefaultConfig
    /\ Len(samples) = 11
    /\ BufLen(samples) = 29760

\* C17: for every input, decode returns an ErrorCorrection error whenever
\* len(encoded) < 8 or len(encoded) < 8 + 12 * shard_size (shard_size the u32 of
\* header bytes 4..8), on every target, the 32-bit one included, so that it
\* never gets as far as indexing beyond the input.
C17_DecodeValidation ==
    (/\ ecc_decoded # Unset
     /\ \/ Len(block) < 8
        \/ WideLess(Len(block), WideMulAdd(12, ReadWide32BE(block, 4), 8)))
        => ecc_decoded = Err("ErrorCorrection")

\* C18: detect_wake_up evaluates the trigger condition at every offset
\* i = 0, step, 2*step, ... with i + w <= len(samples) (w = 2400, step = 600),
\* the window ending exactly at the end of the buffer included, and returns
\* Some(i + 4800) for the first i that triggers, None when none does.
C18_WakeUpScanCoverage ==
    (loop_start_pos # Unset) =>
        LET w == 2400
            step == 600
            hits == {k \in 0..(BufLen(capture) \div step) :
                        /\ k * step + w <= BufLen(capture)
                        /\ WakeHit(frequencies, Window(capture, k * step, w))}
        IN loop_start_pos =
              IF hits = {} THEN None
              ELSE Ok(step * (CHOOSE k \in hits : \A j \in hits : k <= j) + 4800)

\* C19: demodulate returns after finitely many iterations, for every buffer
\* and every symbol_duration_ms (0 included): each iteration of the symbol
\* loop strictly increases the read cursor, which the buffer length bounds,
\* so the loop cannot go on forever.
C19_DemodulateTerminates ==
    [][SymbolStep => (loop_pos' > loop_pos /\ loop_pos' <= BufLen(capture))]_vars

\* C14: under any interleaving of the input callback with the polling loop,
\* the buffer passed to a call of check_fn is a prefix of the buffer passed to
\* every later call and of the buffer finally returned; the shared buffer is
\* only ever appended to.
C14_CaptureOrdering ==
    [][/\ IsPrefix(rec_samples, rec_samples')
       /\ IsPrefix(current_samples, current_samples')
       /\ rec_result'.ok => IsPrefix(current_samples', rec_result'.val)]_vars

C14_GrewAfterLastCheck ==
    /\ rec_pc = "returned"
    /\ rec_result.ok
    /\ check_calls >= 2
    /\ current_samples # <<>>
    /\ Len(rec_result.val) > Len(current_samples)

\* C15: the loop polls check_fn; at the first true answer it stops and returns
\* Ok with the captured samples, without calling check_fn again; if the
\* answers stay false it returns Timeout (no samples) once the elapsed time
\* exceeds timeout_ms, and not before; with time advancing and check_fn
\* returning, the call always ends in one of the two ways.
C15_CaptureCompletion ==
    /\ [](rec_pc = "returned" =>
            \/ rec_result = Ok(rec_samples) /\ check_result
            \/ rec_result = Err("Timeout") /\ ~check_result /\ elapsed > timeout)
    /\ [][/\ check_result => check_calls' = check_calls
          /\ (check_calls' # check_calls /\ ~check_result') =>
                (rec_pc' # "returned" /\ rec_result' = Unset)]_vars
    /\ <>(rec_pc = "returned")

C15_TimedOutAfterPolls ==
    /\ rec_pc = "returned"
    /\ rec_result = Err("Timeout")
    /\ timeout = MaxTimeout
    /\ check_calls >= 2
    /\ rec_samples # <<>>

\* what the callback has written: the first position samples in order, each
\* once, then zeros only and only after the last sample
InOrderThenZeros ==
    /\ position <= Len(out_samples)
    /\ position <= Len(driver)
    /\ \A i \in 1..Len(driver) :
          driver[i] = IF i <= position THEN out_samples[i] ELSE 0
    /\ Len(driver) > position => position = Len(out_samples)

\* a thread waits for a mutex whose owner waits for a mutex of the first
LockCycle ==
    /\ play_pc = "lock" /\ locks.finished = "cb"
    /\ \/ cb_pc = "lock_samples" /\ locks.samples = "main"
       \/ cb_pc = "lock_position" /\ locks.position = "main"
       \/ cb_pc = "lock_finished" /\ locks.finished = "main"

\* C16: under any interleaving of the output callback with the polling
\* thread, play_samples returns only after the callback has written every
\* sample of the buffer, in order and each once (position = len(samples)),
\* followed by zeros only; with both threads scheduled fairly it does return,
\* and the samples, position and finished locks never deadlock.
C16_PlaybackCompletion ==
    /\ [](InOrderThenZeros /\ ~LockCycle)
    /\ []((finished \/ play_pc \in {"tail", "returned"}) =>
            (position = Len(out_samples) /\ IsPrefix(out_samples, driver)))
    /\ <>(play_pc = "returned")

C16_PlayedWhole ==
    /\ play_pc = "returned"
    /\ cb_pc = "idle"
    /\ Len(out_samples) = MaxPlayLen
    /\ position = MaxPlayLen
    /\ Len(driver) > MaxPlayLen
    /\ IsPrefix(out_samples, driver)

=============================================================================
